---- MODULE Spec2Model ----
(***************************************************************************)
(* Model of src/server.py: the hand evaluator (eval_strict), the room      *)
(* state (Room), the websocket handler's actions (ws_endpoint) and round   *)
(* resolution (resolve_round / maybe_finish_round).                        *)
(*                                                                         *)
(* Every handler of ws_endpoint reads and writes the room inside           *)
(* `async with room.lock`, so one action of the model is one message       *)
(* handled under the lock.                                                 *)
(*                                                                         *)
(* Encoding: a card tuple (rank, suit) is <<rank, suit>> with rank one of  *)
(* RANKS and suit one of SUITS (the suit symbols are written c, d, h, s).  *)
(* Optional[int] is <<>> (None) or <<v>>.  A raised ValueError of          *)
(* eval_strict is the result record with ok = FALSE.                       *)
(***************************************************************************)
EXTENDS Integers, Sequences, FiniteSets, TLC

\* ------------------------------------------------------------------ bounds

\* largest card id the model allocates (next_card_id <= MaxCards + 1)
MaxCards == 2
\* longest ordinary card_ids list a client sends in the model
MaxPlayLen == 2
\* resolutions explored (round_no <= MaxRounds)
MaxRounds == 1
\* longest card list handed to eval_strict in SpecEval
MaxEvalLen == 5
\* loads of one room id explored in SpecRooms
MaxLoads == 2

\* ------------------------------------------------------------ game constants

RANKS == <<"2", "3", "4", "5", "6", "7", "8", "9", "T", "J", "Q", "K", "A">>

SUITS == <<"c", "d", "h", "s">>

RANK_VALUE(r) == (CHOOSE i \in DOMAIN RANKS : RANKS[i] = r) + 1

CAT_2 == [HIGH |-> 1, PAIR |-> 2]

CAT_3 == [HIGH |-> 1, PAIR |-> 2, TRIPS |-> 3, FLUSH |-> 4, STRAIGHT |-> 5]

CAT_4 == [HIGH |-> 1, PAIR |-> 2, TWO_PAIR |-> 3, TRIPS |-> 4, FLUSH |-> 5,
          STRAIGHT |-> 6, QUADS |-> 7]

CAT_5 == [HIGH |-> 1, PAIR |-> 2, TWO_PAIR |-> 3, TRIPS |-> 4, STRAIGHT |-> 5,
          FLUSH |-> 6, FULL_HOUSE |-> 7, QUADS |-> 8, STRAIGHT_FLUSH |-> 9]

\* ------------------------------------------------------------------ helpers

SeqToSet(s) == {s[i] : i \in DOMAIN s}

MaxOf(S) == CHOOSE x \in S : \A y \in S : y <= x

MinOf(S) == CHOOSE x \in S : \A y \in S : x <= y

RemoveAt(s, i) == [j \in 1..(Len(s) - 1) |-> IF j < i THEN s[j] ELSE s[j + 1]]

\* sorted(values, reverse=True)
RECURSIVE SortedDesc(_)
SortedDesc(s) ==
  IF s = <<>> THEN <<>>
  ELSE LET i == CHOOSE k \in DOMAIN s : \A j \in DOMAIN s : s[j] <= s[k]
       IN  <<s[i]>> \o SortedDesc(RemoveAt(s, i))

\* Python's tuple order on tuples of integers: a < b
RECURSIVE TupleLess(_, _)
TupleLess(a, b) ==
  IF b = <<>> THEN FALSE
  ELSE IF a = <<>> THEN TRUE
  ELSE IF a[1] # b[1] THEN a[1] < b[1]
  ELSE TupleLess(Tail(a), Tail(b))

\* Python's order on (cat, tb) pairs: x < y
StrengthLess(x, y) == x[1] < y[1] \/ (x[1] = y[1] /\ TupleLess(x[2], y[2]))

\* --------------------------------------------------------------- evaluator

\* a faulty variant of straight_high: the ace of A-2-3-4-5 counts high
straight_high_ace(values) ==
  LET n == Len(values)
      v == SeqToSet(values)
  IN  IF Cardinality(v) # n THEN <<>>
      ELSE IF n = 5 /\ v = {2, 3, 4, 5, 14} THEN <<14>>
      ELSE IF MaxOf(v) - MinOf(v) = n - 1 THEN <<MaxOf(v)>>
      ELSE <<>>

straight_high(values) ==
  LET n == Len(values)
      v == SeqToSet(values)
  IN  IF Cardinality(v) # n THEN <<>>
      ELSE IF n = 5 /\ v = {2, 3, 4, 5, 14} THEN <<5>>
      ELSE IF MaxOf(v) - MinOf(v) = n - 1 THEN <<MaxOf(v)>>
      ELSE <<>>

\* cnt: how many of the cards have rank r
Cnt(cards, r) == Cardinality({i \in DOMAIN cards : cards[i][1] = r})

\* the sort key (count, rank value) of an item <<rank, count>>: a <= b
ItemKeyLeq(a, b) ==
  a[2] < b[2] \/ (a[2] = b[2] /\ RANK_VALUE(a[1]) <= RANK_VALUE(b[1]))

RECURSIVE SortItemsDesc(_)
SortItemsDesc(S) ==
  IF S = {} THEN <<>>
  ELSE LET m == CHOOSE x \in S : \A y \in S : ItemKeyLeq(y, x)
       IN  <<m>> \o SortItemsDesc(S \ {m})

\* items = sorted(cnt.items(), key=(count, rank value), reverse=True)
Items(cards) ==
  SortItemsDesc({<<r, Cnt(cards, r)>> : r \in {cards[i][1] : i \in DOMAIN cards}})

\* the generator (RANK_VALUE[r] for r, c in items if c == 1), as a set
Singles(items) == {RANK_VALUE(items[i][1]) : i \in {j \in DOMAIN items : items[j][2] = 1}}

Raised == [ok |-> FALSE, cat |-> 0, tb |-> <<>>, label |-> "ValueError"]

Ret(cat, tb, label) == [ok |-> TRUE, cat |-> cat, tb |-> tb, label |-> label]

\* max(...) over the single ranks raises ValueError when there is none
WithKicker(items, cat, groups, label) ==
  IF Singles(items) = {} THEN Raised
  ELSE Ret(cat, groups \o <<MaxOf(Singles(items))>>, label)

\* sorted(S, reverse=True) of a set of distinct integers
RECURSIVE SetSortedDesc(_)
SetSortedDesc(S) ==
  IF S = {} THEN <<>> ELSE <<MaxOf(S)>> \o SetSortedDesc(S \ {MaxOf(S)})

\* (group, *kickers) with kickers = sorted(singles, reverse=True)
WithKickers(items, cat, groups, label) ==
  Ret(cat, groups \o SetSortedDesc(Singles(items)), label)

eval_strict(cards) ==
  LET n == Len(cards)
      items == Items(cards)
      is_flush == Cardinality({cards[i][2] : i \in DOMAIN cards}) = 1
      values == [i \in DOMAIN cards |-> RANK_VALUE(cards[i][1])]
      sh == straight_high(values)
      top == items[1][2]
      topv == RANK_VALUE(items[1][1])
      high == SortedDesc(values)
  IN
  IF ~(2 <= n /\ n <= 5) THEN Raised
  ELSE IF n = 2 THEN
       IF top = 2 THEN Ret(CAT_2.PAIR, <<topv>>, "PAIR")
       ELSE Ret(CAT_2.HIGH, high, "HIGH")
  ELSE IF n = 3 THEN
       IF top = 3 THEN Ret(CAT_3.TRIPS, <<topv>>, "TRIPS")
       ELSE IF top = 2 THEN WithKicker(items, CAT_3.PAIR, <<topv>>, "PAIR")
       ELSE IF sh # <<>> THEN Ret(CAT_3.STRAIGHT, sh, "STRAIGHT3")
       ELSE IF is_flush THEN Ret(CAT_3.FLUSH, high, "FLUSH3")
       ELSE Ret(CAT_3.HIGH, high, "HIGH")
  ELSE IF n = 4 THEN
       IF top = 4 THEN Ret(CAT_4.QUADS, <<topv>>, "QUADS")
       ELSE IF top = 3 THEN WithKicker(items, CAT_4.TRIPS, <<topv>>, "TRIPS")
       ELSE IF top = 2 /\ items[2][2] = 2 THEN
            LET p1 == topv
                p2 == RANK_VALUE(items[2][1])
            IN  WithKicker(items, CAT_4.TWO_PAIR,
                           <<MaxOf({p1, p2}), MinOf({p1, p2})>>, "TWO_PAIR")
       ELSE IF top = 2 THEN WithKickers(items, CAT_4.PAIR, <<topv>>, "PAIR")
       ELSE IF sh # <<>> THEN Ret(CAT_4.STRAIGHT, sh, "STRAIGHT4")
       ELSE IF is_flush THEN Ret(CAT_4.FLUSH, high, "FLUSH4")
       ELSE Ret(CAT_4.HIGH, high, "HIGH")
  ELSE IF sh # <<>> /\ is_flush THEN Ret(CAT_5.STRAIGHT_FLUSH, sh, "STRAIGHT_FLUSH")
  ELSE IF top = 4 THEN WithKicker(items, CAT_5.QUADS, <<topv>>, "QUADS")
  ELSE IF top = 3 /\ items[2][2] = 2 THEN
       Ret(CAT_5.FULL_HOUSE, <<topv, RANK_VALUE(items[2][1])>>, "FULL_HOUSE")
  ELSE IF is_flush THEN Ret(CAT_5.FLUSH, high, "FLUSH")
  ELSE IF sh # <<>> THEN Ret(CAT_5.STRAIGHT, sh, "STRAIGHT")
  ELSE IF top = 3 THEN WithKickers(items, CAT_5.TRIPS, <<topv>>, "TRIPS")
  ELSE IF top = 2 /\ items[2][2] = 2 THEN
       LET p1 == topv
           p2 == RANK_VALUE(items[2][1])
       IN  WithKicker(items, CAT_5.TWO_PAIR,
                      <<MaxOf({p1, p2}), MinOf({p1, p2})>>, "TWO_PAIR")
  ELSE IF top = 2 THEN WithKickers(items, CAT_5.PAIR, <<topv>>, "PAIR")
  ELSE Ret(CAT_5.HIGH, high, "HIGH")

\* -------------------------------------------------------------- room state

\* TABLES of the source holds 30 names; the model keeps the first two
TABLES == <<"T1", "T2">>

TableSet == SeqToSet(TABLES)

\* Room.can_join: at most this many players per room
MAX_PLAYERS == 6

\* random_unique_cards: the largest n one deal accepts
DECK_SIZE == 52

\* player ids in the order in which new ones join (pids are opaque to the
\* code, so the first new pid is called p1, the second p2, ...)
PidOrder == <<"p1", "p2", "p3", "p4", "p5", "p6", "p7">>

\* websocket connections, display names, and the cards a deal draws from
Conns == {"c1", "c2"}

Names == {"n1"}

ModelDeck == {<<"K", "c">>, <<"A", "c">>}

VARIABLES
  players,        \* Room.players: the pids, in dict (insertion) order
  pname,          \* Player.name of each player
  hand,           \* Player.hand of each player: a list of CardInst
  sockets,        \* Room.sockets: pid -> the connection bound to it
  pending,        \* Room.pending: table -> list of Play
  battle_history, \* Room.battle_history
  round_no,       \* Room.round_no
  ready_pids,     \* Room.ready_pids
  play_seq,       \* Room.play_seq
  next_card_id,   \* Room.next_card_id
  conn,           \* each connection's handler: its position and its local pid
  last,           \* the error reply to the message handled last: the error
                  \* ("none": no error), the connection whose message it was
                  \* and the connections the error was sent to
  evCards,        \* SpecEval: the cards handed to eval_strict
  evRes,          \* SpecEval: what eval_strict returned (<<>>: not called yet)
  lock,           \* Room.lock: the connection whose handler holds it, or "free"
  lpc,            \* SpecLock: where each handler is inside `async with
                  \* room.lock`, and whether its one_shot_round is set
  obs,            \* SpecLock: the room as the last persisted snapshot or
                  \* broadcast showed it
  ROOMS,          \* the registry: room id -> the Room object registered
  ROOMS_LOCK,     \* the task that holds ROOMS_LOCK, or "free"
  gpc,            \* SpecRooms: where each task is inside get_room
  got,            \* SpecRooms: the Room object get_room last returned to a task
  loads           \* SpecRooms: how many loads of each room id were made

roomVars == <<players, pname, hand, sockets, pending, battle_history, round_no,
              ready_pids, play_seq, next_card_id>>

\* what only the step-by-step specifications write
regVars == <<ROOMS, ROOMS_LOCK, gpc, got, loads>>

sideVars == <<lock, lpc, obs, regVars>>

vars == <<players, pname, hand, sockets, pending, battle_history, round_no,
          ready_pids, play_seq, next_card_id, conn, last, evCards, evRes, sideVars>>

PlayerSet == SeqToSet(players)

EmptyDict == [x \in {} |-> x]

Pop(f, k) == [x \in DOMAIN f \ {k} |-> f[x]]

Put(f, k, v) == [x \in DOMAIN f \cup {k} |-> IF x = k THEN v ELSE f[x]]

\* [c for c in hand if c.id not in ids]
RECURSIVE HandWithout(_, _)
HandWithout(h, ids) ==
  IF h = <<>> THEN <<>>
  ELSE IF h[1].id \in ids THEN HandWithout(Tail(h), ids)
  ELSE <<h[1]>> \o HandWithout(Tail(h), ids)

HandIds(h) == {h[i].id : i \in DOMAIN h}

\* lookup = {c.id: c for c in player.hand}: the last card of an id wins
Lookup(h, cid) == h[MaxOf({i \in DOMAIN h : h[i].id = cid})]

\* Room(room_id): the state of a fresh room
RoomInit ==
  /\ players = <<>>
  /\ pname = EmptyDict
  /\ hand = EmptyDict
  /\ sockets = EmptyDict
  /\ pending = [t \in TableSet |-> <<>>]
  /\ battle_history = <<>>
  /\ round_no = 0
  /\ ready_pids = {}
  /\ play_seq = 0
  /\ next_card_id = 1

NoConn == [st |-> "closed", pid |-> "-"]

NoLast == [err |-> "none", c |-> "-", to |-> {}]

\* no handler is inside the room lock, nothing was shown yet
NoObs ==
  [kind |-> "none", by |-> "-", rr |-> FALSE, round_no |-> 0, hist |-> 0,
   inv |-> {}, ready |-> {}]

\* the tasks that call get_room, and the room ids they ask for
Tasks == {"t1", "t2", "t3"}

RoomIds == {"r1", "r2"}

NoRoom == [id |-> "-", no |-> 0, restored |-> FALSE]

Idle == [at |-> "idle", rid |-> "-"]

SideInit ==
  /\ ROOMS = EmptyDict
  /\ ROOMS_LOCK = "free"
  /\ gpc = [t \in Tasks |-> Idle]
  /\ got = [t \in Tasks |-> NoRoom]
  /\ loads = [r \in RoomIds |-> 0]
  /\ lock = "free"
  /\ lpc = [c \in Conns |-> [at |-> "out", rr |-> FALSE, todo |-> {}, dead |-> {}]]
  /\ obs = NoObs

Init ==
  /\ RoomInit
  /\ conn = [c \in Conns |-> NoConn]
  /\ last = NoLast
  /\ evCards = <<>>
  /\ evRes = <<>>
  /\ SideInit

can_join == Len(players) < MAX_PLAYERS

\* a faulty variant of NewCards: next_card_id is not advanced between cards
NewCardsSameId(start, cs) ==
  [i \in 1..Len(cs) |-> [id |-> start, rank |-> cs[i][1], suit |-> cs[i][2]]]

\* Room.new_card for each drawn (rank, suit), ids counted from `start`
NewCards(start, cs) ==
  [i \in 1..Len(cs) |-> [id |-> start + i - 1, rank |-> cs[i][1], suit |-> cs[i][2]]]

involved_pids ==
  UNION {{pending[t][i].pid : i \in DOMAIN pending[t]} : t \in TableSet}

\* a faulty variant of used_card_ids_in_round: the pending Plays are ignored
used_card_ids_none(pid) == {}

used_card_ids_in_round(pid) ==
  UNION {UNION {SeqToSet(pending[t][i].card_ids) :
                  i \in {j \in DOMAIN pending[t] : pending[t][j].pid = pid}} :
         t \in TableSet}

\* broadcast: a send to a connection whose peer is gone may fail, and the pids
\* whose send failed are dropped from Room.sockets
Broadcasts(sk, cn) ==
  {[p \in DOMAIN sk \ D |-> sk[p]] :
     D \in SUBSET {p \in DOMAIN sk : cn[sk[p]].st = "gone"}}

\* --------------------------------------------------------- round resolution

PlayStrength(p) == <<p.cat, p.tb>>

\* a faulty variant of best_strength: the least strength
best_strength_min(plays) ==
  CHOOSE s \in {PlayStrength(plays[i]) : i \in DOMAIN plays} :
    \A i \in DOMAIN plays : ~StrengthLess(PlayStrength(plays[i]), s)

\* best_strength = max((p.cat, p.tb) for p in plays)
best_strength(plays) ==
  CHOOSE s \in {PlayStrength(plays[i]) : i \in DOMAIN plays} :
    \A i \in DOMAIN plays : ~StrengthLess(s, PlayStrength(plays[i]))

\* a faulty variant of winner: the last of the best plays
winner_latest(plays) ==
  LET best == {i \in DOMAIN plays : PlayStrength(plays[i]) = best_strength(plays)}
  IN  plays[MaxOf(best)]

\* winner = min(best_plays, key=placed_seq): the first play of least placed_seq
\* among the plays of best strength
winner(plays) ==
  LET best == {i \in DOMAIN plays : PlayStrength(plays[i]) = best_strength(plays)}
      seq == MinOf({plays[i].placed_seq : i \in best})
  IN  plays[MinOf({i \in best : plays[i].placed_seq = seq})]

\* tables_out: one entry per table that has pending plays, in TABLES order
RECURSIVE tables_out(_)
tables_out(k) ==
  IF k > Len(TABLES) THEN <<>>
  ELSE LET plays == pending[TABLES[k]]
       IN  (IF plays = <<>> THEN <<>>
            ELSE <<[table |-> TABLES[k], plays |-> plays, winner |-> winner(plays)]>>)
           \o tables_out(k + 1)

\* remove_by_pid[pid]: the card ids of every pending play of pid
remove_by_pid(pid) ==
  UNION {UNION {SeqToSet(pending[t][i].card_ids) :
                  i \in {j \in DOMAIN pending[t] : pending[t][j].pid = pid}} :
         t \in TableSet}

\* a faulty variant of ResolvedHand: the played cards stay in the hands
ResolvedHandKept(pid) == hand[pid]

\* pl.hand = [c for c in pl.hand if c.id not in ids], for the pids of the plays
ResolvedHand(pid) ==
  IF pid \in involved_pids THEN HandWithout(hand[pid], remove_by_pid(pid))
  ELSE hand[pid]

\* room.pending = {t: [] for t in TABLES}
ResolvedPending == [t \in TableSet |-> <<>>]

\* a faulty variant of ResolvedReady: ready_pids is not cleared
ResolvedReadyKept(ready) == ready

\* room.ready_pids.clear()
ResolvedReady(ready) == {}

\* resolve_round on a room whose ready_pids is `ready`
\* a faulty variant of resolve_round: round_no is not incremented
resolve_round_same_no(ready) ==
  /\ round_no' = round_no
  /\ hand' = [p \in DOMAIN hand |-> ResolvedHand(p)]
  /\ battle_history' =
       Append(battle_history, [round |-> round_no + 1, tables |-> tables_out(1)])
  /\ pending' = ResolvedPending
  /\ ready_pids' = ResolvedReady(ready)

resolve_round(ready) ==
  /\ round_no' = round_no + 1
  /\ hand' = [p \in DOMAIN hand |-> ResolvedHand(p)]
  /\ battle_history' =
       Append(battle_history, [round |-> round_no + 1, tables |-> tables_out(1)])
  /\ pending' = ResolvedPending
  /\ ready_pids' = ResolvedReady(ready)

\* a faulty variant of ShouldFinish: the round waits for every player
ShouldFinishAllPlayers(ready) == involved_pids # {} /\ PlayerSet \subseteq ready

\* maybe_finish_round, called with ready_pids already holding the voter
ShouldFinish(ready) == involved_pids # {} /\ involved_pids \subseteq ready

\* ------------------------------------------------------- handler outcomes

\* a faulty variant of ErrorTo: the error goes to every connection
ErrorToAll(c) == Conns

\* ws.send_text of an error message: it goes to the handler's own websocket
ErrorTo(c) == {c}

\* an error sent to the caller followed by `continue` (or, in join, `return`):
\* nothing of the room is written
Reject(c, err) ==
  /\ last' = [err |-> err, c |-> c, to |-> ErrorTo(c)]
  /\ UNCHANGED <<roomVars, conn, evCards, evRes, sideVars>>

\* a read-only reply to the caller followed by `continue`
Reply(c) ==
  /\ last' = NoLast
  /\ UNCHANGED <<roomVars, conn, evCards, evRes, sideVars>>

\* the end of a handled message that was not cut short: persist_room (when
\* needs_save) and broadcast
Commit(c) ==
  /\ last' = NoLast
  /\ sockets' \in Broadcasts(sockets, conn)
  /\ UNCHANGED <<conn, evCards, evRes, sideVars>>

\* a faulty variant of Finally: the player's hand is dropped with the binding
FinallyDropsHand(c, err) ==
  /\ conn' = [conn EXCEPT ![c] = NoConn]
  /\ sockets' \in Broadcasts(Pop(sockets, conn[c].pid), conn')
  /\ last' = [err |-> err, c |-> "-", to |-> {}]
  /\ hand' = [hand EXCEPT ![conn[c].pid] = <<>>]
  /\ UNCHANGED <<players, pname, pending, battle_history, round_no,
                 ready_pids, play_seq, next_card_id, evCards, evRes, sideVars>>

\* the handler leaves its loop (leave, a closed peer, an uncaught exception):
\* the finally block pops the handler's pid from Room.sockets and broadcasts
Finally(c, err) ==
  /\ conn' = [conn EXCEPT ![c] = NoConn]
  /\ sockets' \in Broadcasts(Pop(sockets, conn[c].pid), conn')
  /\ last' = [err |-> err, c |-> "-", to |-> {}]
  /\ UNCHANGED <<players, pname, hand, pending, battle_history, round_no,
                 ready_pids, play_seq, next_card_id, evCards, evRes, sideVars>>

IsOpen(c) == conn[c].st = "open"

\* ------------------------------------------------------------------- join

\* a faulty variant of JoinVerdict: a full room refuses known pids too
JoinVerdictStrict(pid) == IF ~can_join THEN "RoomFull" ELSE "ok"

JoinVerdict(pid) ==
  IF pid \notin PlayerSet /\ ~can_join THEN "RoomFull" ELSE "ok"

\* the first message of a connection: join
Join(c, pid, name) ==
  /\ conn[c].st = "closed"
  /\ IF JoinVerdict(pid) # "ok"
     THEN \* error, return; the finally block runs with this pid
          /\ sockets' \in Broadcasts(Pop(sockets, pid), conn)
          /\ last' = [err |-> JoinVerdict(pid), c |-> c, to |-> ErrorTo(c)]
          /\ UNCHANGED <<players, pname, hand, pending, battle_history, round_no,
                         ready_pids, play_seq, next_card_id, conn, evCards, evRes, sideVars>>
     ELSE /\ IF pid \notin PlayerSet
             THEN /\ players' = Append(players, pid)
                  /\ pname' = Put(pname, pid, name)
                  /\ hand' = Put(hand, pid, <<>>)
             ELSE /\ pname' = [pname EXCEPT ![pid] = name]
                  /\ UNCHANGED <<players, hand>>
          /\ conn' = [conn EXCEPT ![c] = [st |-> "open", pid |-> pid]]
          /\ sockets' \in Broadcasts(Put(sockets, pid, c), conn')
          /\ last' = NoLast
          /\ UNCHANGED <<pending, battle_history, round_no, ready_pids, play_seq,
                         next_card_id, evCards, evRes, sideVars>>

\* the first message of a connection is not a join: error, return (pid is
\* None, so the finally block does nothing)
NotJoin(c) ==
  /\ conn[c].st = "closed"
  /\ Reject(c, "NotJoin")

\* ------------------------------------------------------------------ cards

\* random_unique_cards(n): every order of every n distinct cards of the deck
RECURSIVE random_unique_cards(_, _)
random_unique_cards(n, deck) ==
  IF n = 0 THEN {<<>>}
  ELSE UNION {{<<x>> \o r : r \in random_unique_cards(n - 1, deck \ {x})} : x \in deck}

Lower(ch) ==
  CASE ch = "C" -> "c" [] ch = "D" -> "d" [] ch = "H" -> "h" [] ch = "S" -> "s"
    [] OTHER -> ch

Upper(ch) ==
  CASE ch = "t" -> "T" [] ch = "j" -> "J" [] ch = "q" -> "Q" [] ch = "k" -> "K"
    [] ch = "a" -> "A" [] OTHER -> ch

\* parse_card_text on a text given as its list of characters (already
\* stripped): <<>> is None
parse_card_text(t) ==
  IF t = <<>> THEN <<>>
  ELSE LET s == Lower(t[Len(t)])
           rank_part == SubSeq(t, 1, Len(t) - 1)
           rank == IF rank_part = <<"1", "0">> THEN "T"
                   ELSE IF Len(rank_part) = 1 THEN Upper(rank_part[1])
                   ELSE "?"
       IN  IF s \notin SeqToSet(SUITS) THEN <<>>
           ELSE IF rank \notin SeqToSet(RANKS) THEN <<>>
           ELSE <<<<rank, s>>>>

DealVerdict(n) ==
  IF n < 0 THEN "InvalidDealSize"
  ELSE IF n > DECK_SIZE THEN "InvalidDealSize"
  ELSE "ok"

Deal(c, n, cs) ==
  /\ IsOpen(c)
  /\ IF DealVerdict(n) # "ok" THEN Reject(c, DealVerdict(n))
     ELSE /\ Len(cs) = n
          /\ next_card_id + n <= MaxCards + 1
          /\ hand' = [hand EXCEPT ![conn[c].pid] = @ \o NewCards(next_card_id, cs)]
          /\ next_card_id' = next_card_id + n
          /\ Commit(c)
          /\ UNCHANGED <<players, pname, pending, battle_history, round_no,
                         ready_pids, play_seq>>

\* css[k]: the cards drawn for the k-th player of Room.players
DealAll(c, n, css) ==
  /\ IsOpen(c)
  /\ IF DealVerdict(n) # "ok" THEN Reject(c, DealVerdict(n))
     ELSE /\ DOMAIN css = DOMAIN players
          /\ \A k \in DOMAIN css : Len(css[k]) = n
          /\ next_card_id + n * Len(players) <= MaxCards + 1
          /\ hand' = [p \in DOMAIN hand |->
                        LET k == CHOOSE i \in DOMAIN players : players[i] = p
                        IN  hand[p] \o NewCards(next_card_id + (k - 1) * n, css[k])]
          /\ next_card_id' = next_card_id + n * Len(players)
          /\ Commit(c)
          /\ UNCHANGED <<players, pname, pending, battle_history, round_no,
                         ready_pids, play_seq>>

ManualVerdict(text) ==
  IF parse_card_text(text) = <<>> THEN "InvalidCardText" ELSE "ok"

AddManual(c, text) ==
  /\ IsOpen(c)
  /\ IF ManualVerdict(text) # "ok" THEN Reject(c, ManualVerdict(text))
     ELSE /\ next_card_id <= MaxCards
          /\ hand' = [hand EXCEPT
                        ![conn[c].pid] = @ \o NewCards(next_card_id, parse_card_text(text))]
          /\ next_card_id' = next_card_id + 1
          /\ Commit(c)
          /\ UNCHANGED <<players, pname, pending, battle_history, round_no,
                         ready_pids, play_seq>>

\* a faulty variant of ClearHand: refused while a Play of the caller is pending
ClearHandUnlessUsed(c) ==
  /\ IsOpen(c)
  /\ IF used_card_ids_in_round(conn[c].pid) # {} THEN Reject(c, "CardsInUse")
     ELSE /\ hand' = [hand EXCEPT ![conn[c].pid] = <<>>]
          /\ Commit(c)
          /\ UNCHANGED <<players, pname, pending, battle_history, round_no,
                         ready_pids, play_seq, next_card_id>>

ClearHand(c) ==
  /\ IsOpen(c)
  /\ hand' = [hand EXCEPT ![conn[c].pid] = <<>>]
  /\ Commit(c)
  /\ UNCHANGED <<players, pname, pending, battle_history, round_no, ready_pids,
                 play_seq, next_card_id>>

\* a faulty variant of RemoveVerdict: no used_card_ids_in_round check
RemoveVerdictNoUseCheck(c, card_ids) ==
  LET pid == conn[c].pid
  IN  IF card_ids = <<>> THEN "skip"
      ELSE IF Len(HandWithout(hand[pid], SeqToSet(card_ids))) = Len(hand[pid])
           THEN "NoSuchCards"
      ELSE "ok"

\* remove_selected up to its last `continue`: "skip" is the silent `continue`
\* on an empty list
RemoveVerdict(c, card_ids) ==
  LET pid == conn[c].pid
  IN  IF card_ids = <<>> THEN "skip"
      ELSE IF SeqToSet(card_ids) \cap used_card_ids_in_round(pid) # {} THEN "CardsInUse"
      ELSE IF Len(HandWithout(hand[pid], SeqToSet(card_ids))) = Len(hand[pid])
           THEN "NoSuchCards"
      ELSE "ok"

RemoveSelected(c, card_ids) ==
  /\ IsOpen(c)
  /\ IF RemoveVerdict(c, card_ids) = "skip" THEN Reply(c)
     ELSE IF RemoveVerdict(c, card_ids) # "ok" THEN Reject(c, RemoveVerdict(c, card_ids))
     ELSE /\ hand' = [hand EXCEPT
                        ![conn[c].pid] = HandWithout(@, SeqToSet(card_ids))]
          /\ Commit(c)
          /\ UNCHANGED <<players, pname, pending, battle_history, round_no,
                         ready_pids, play_seq, next_card_id>>

\* cards = [lookup[cid].as_tuple() for cid in card_ids]
CardTuples(h, card_ids) ==
  [i \in DOMAIN card_ids |->
     <<Lookup(h, card_ids[i]).rank, Lookup(h, card_ids[i]).suit>>]

\* eval_selected up to eval_strict: "ValueError" is eval_strict raising
EvalVerdict(c, card_ids) ==
  LET pid == conn[c].pid
  IN  IF ~(2 <= Len(card_ids) /\ Len(card_ids) <= 5) THEN "InvalidCombinationSize"
      ELSE IF ~(SeqToSet(card_ids) \subseteq HandIds(hand[pid])) THEN "NoSuchCards"
      ELSE IF ~eval_strict(CardTuples(hand[pid], card_ids)).ok THEN "ValueError"
      ELSE "ok"

EvalSelected(c, card_ids) ==
  /\ IsOpen(c)
  /\ IF EvalVerdict(c, card_ids) = "ValueError" THEN Finally(c, "ValueError")
     ELSE IF EvalVerdict(c, card_ids) # "ok" THEN Reject(c, EvalVerdict(c, card_ids))
     ELSE Reply(c)

\* a faulty variant of PlayVerdict: no used_card_ids_in_round check
PlayVerdictNoUsedCheck(c, table, card_ids) ==
  LET pid == conn[c].pid
  IN  IF table \notin TableSet THEN "BadTable"
      ELSE IF ~(2 <= Len(card_ids) /\ Len(card_ids) <= 5) THEN "InvalidCombinationSize"
      ELSE IF ~(SeqToSet(card_ids) \subseteq HandIds(hand[pid])) THEN "NoSuchCards"
      ELSE IF ~eval_strict(CardTuples(hand[pid], card_ids)).ok THEN "ValueError"
      ELSE "ok"

\* play_selected up to eval_strict: "ValueError" is eval_strict raising
PlayVerdict(c, table, card_ids) ==
  LET pid == conn[c].pid
  IN  IF table \notin TableSet THEN "BadTable"
      ELSE IF ~(2 <= Len(card_ids) /\ Len(card_ids) <= 5) THEN "InvalidCombinationSize"
      ELSE IF ~(SeqToSet(card_ids) \subseteq HandIds(hand[pid])) THEN "NoSuchCards"
      ELSE IF SeqToSet(card_ids) \cap used_card_ids_in_round(pid) # {}
           THEN "CardsAlreadyUsed"
      ELSE IF ~eval_strict(CardTuples(hand[pid], card_ids)).ok THEN "ValueError"
      ELSE "ok"

\* a faulty variant of NewPlay: stamped before play_seq is incremented
NewPlayOldSeq(pid, table, card_ids) ==
  LET ev == eval_strict(CardTuples(hand[pid], card_ids))
  IN  [pid |-> pid, name |-> pname[pid], table |-> table, card_ids |-> card_ids,
       cat |-> ev.cat, tb |-> ev.tb, label |-> ev.label, placed_seq |-> play_seq]

\* the Play appended by an accepted play_selected (cards_text, the rendering
\* of the same cards, and placed_ms, the wall clock, are left out)
NewPlay(pid, table, card_ids) ==
  LET ev == eval_strict(CardTuples(hand[pid], card_ids))
  IN  [pid |-> pid, name |-> pname[pid], table |-> table, card_ids |-> card_ids,
       cat |-> ev.cat, tb |-> ev.tb, label |-> ev.label, placed_seq |-> play_seq + 1]

\* a faulty variant of PlaySelected: the submitter's readiness is not revoked
PlaySelectedStaysReady(c, table, card_ids) ==
  /\ IsOpen(c)
  /\ IF PlayVerdict(c, table, card_ids) = "ValueError" THEN Finally(c, "ValueError")
     ELSE IF PlayVerdict(c, table, card_ids) # "ok"
          THEN Reject(c, PlayVerdict(c, table, card_ids))
     ELSE /\ play_seq' = play_seq + 1
          /\ pending' = [pending EXCEPT
                           ![table] = Append(@, NewPlay(conn[c].pid, table, card_ids))]
          /\ Commit(c)
          /\ UNCHANGED <<players, pname, hand, battle_history, round_no,
                         next_card_id, ready_pids>>

PlaySelected(c, table, card_ids) ==
  /\ IsOpen(c)
  /\ IF PlayVerdict(c, table, card_ids) = "ValueError" THEN Finally(c, "ValueError")
     ELSE IF PlayVerdict(c, table, card_ids) # "ok"
          THEN Reject(c, PlayVerdict(c, table, card_ids))
     ELSE /\ ready_pids' = ready_pids \ {conn[c].pid}
          /\ play_seq' = play_seq + 1
          /\ pending' = [pending EXCEPT
                           ![table] = Append(@, NewPlay(conn[c].pid, table, card_ids))]
          /\ Commit(c)
          /\ UNCHANGED <<players, pname, hand, battle_history, round_no,
                         next_card_id>>

\* ----------------------------------------------------------- end of round

EndRoundVote(c) ==
  /\ IsOpen(c)
  /\ IF ShouldFinish(ready_pids \cup {conn[c].pid})
     THEN /\ round_no < MaxRounds
          /\ resolve_round(ready_pids \cup {conn[c].pid})
          /\ UNCHANGED <<players, pname, play_seq, next_card_id>>
     ELSE /\ ready_pids' = ready_pids \cup {conn[c].pid}
          /\ UNCHANGED <<players, pname, hand, pending, battle_history,
                         round_no, play_seq, next_card_id>>
  /\ Commit(c)

\* a faulty variant of EndRoundForce: it waits for readiness as a vote does
EndRoundForceIfReady(c) == EndRoundVote(c)

EndRoundForce(c) ==
  /\ IsOpen(c)
  /\ round_no < MaxRounds
  /\ resolve_round(ready_pids)
  /\ Commit(c)
  /\ UNCHANGED <<players, pname, play_seq, next_card_id>>

\* ------------------------------------------------------------ other messages

Hints(c) == IsOpen(c) /\ Reply(c)

Leave(c) == IsOpen(c) /\ Finally(c, "none")

UnknownType(c) == IsOpen(c) /\ Reject(c, "UnknownType")

\* the peer closes the connection; the handler has not yet been resumed
PeerClose(c) ==
  /\ IsOpen(c)
  /\ conn' = [conn EXCEPT ![c].st = "gone"]
  /\ UNCHANGED <<roomVars, last, evCards, evRes, sideVars>>

\* receive_text raises WebSocketDisconnect: the finally block
Disconnect(c) ==
  /\ conn[c].st = "gone"
  /\ Finally(c, "none")

\* --------------------------------------------------------------- the inputs

CardIds == 1..MaxCards

\* card_ids lists: the increasing lists of up to MaxPlayLen ids and two lists
\* that name one id twice
IdLists ==
  {s \in UNION {[1..n -> CardIds] : n \in 1..MaxPlayLen} :
     \A i \in DOMAIN s : i = 1 \/ s[i - 1] < s[i]}
  \cup {<<1, 1>>, <<2, 2>>}

\* a joining pid that is new to the room: the next of PidOrder
NewPid(limit) ==
  IF Len(players) < limit THEN {PidOrder[Len(players) + 1]} ELSE {}

\* Spec: two connections, two players, and messages the handler accepts
Next ==
  \/ \E c \in Conns, pid \in NewPid(2), name \in Names : Join(c, pid, name)
  \/ \E c \in Conns, n \in {1, 2} : \E cs \in random_unique_cards(n, ModelDeck) :
       Deal(c, n, cs)
  \/ \E c \in Conns, n \in {1} :
       \E css \in [DOMAIN players -> random_unique_cards(n, ModelDeck)] :
         DealAll(c, n, css)
  \/ \E c \in Conns : AddManual(c, <<"k", "C">>)
  \/ \E c \in Conns : ClearHand(c)
  \/ \E c \in Conns, ids \in IdLists :
       IsOpen(c) /\ RemoveVerdict(c, ids) = "ok" /\ RemoveSelected(c, ids)
  \/ \E c \in Conns, t \in TableSet, ids \in IdLists :
       IsOpen(c) /\ PlayVerdict(c, t, ids) = "ok" /\ PlaySelected(c, t, ids)
  \/ \E c \in Conns : EndRoundVote(c)
  \/ \E c \in Conns : EndRoundForce(c)

Spec == Init /\ [][Next]_vars

\* SpecConn: connections that come and go (a peer that closes, a handler that
\* leaves, a pid that joins again, on the same or on a second connection)
\* around one kind of card and the messages the handler accepts
Pids == {"p1", "p2"}

NextConn ==
  \/ \E c \in Conns, pid \in NewPid(Cardinality(Pids)) \cup PlayerSet, name \in Names :
       Join(c, pid, name)
  \/ \E c \in Conns : AddManual(c, <<"k", "C">>)
  \/ \E c \in Conns, t \in TableSet, ids \in IdLists :
       IsOpen(c) /\ PlayVerdict(c, t, ids) = "ok" /\ PlaySelected(c, t, ids)
  \/ \E c \in Conns : EndRoundVote(c)
  \/ \E c \in Conns : EndRoundForce(c)
  \/ \E c \in Conns : Leave(c)
  \/ \E c \in Conns : PeerClose(c)
  \/ \E c \in Conns : Disconnect(c)

SpecConn == Init /\ [][NextConn]_vars

\* SpecErr: every message, the rejected ones included, in a room that fills
\* up: new pids join, the earlier ones leaving, until the room is full, and
\* then the two that joined last play, on one table and with one kind of
\* card, while a further pid tries to join
ManualTexts == {<<"k", "C">>, <<"K", "x">>, <<"1", "c">>, <<>>}

BadDealSizes == {-1, DECK_SIZE + 1}

BadTable == "X"

ErrIdLists == IdLists \cup {<<1, 1, 1, 1, 1, 1>>, <<1, 1, 2, 2>>}

PlayInputs == ({TABLES[1]} \X ErrIdLists) \cup {<<BadTable, <<1, 2>>>>}

\* the players that join last
LastPids == {PidOrder[MAX_PLAYERS - 1], PidOrder[MAX_PLAYERS]}

Playing(c) == IsOpen(c) /\ conn[c].pid \in LastPids /\ Len(players) = MAX_PLAYERS

NextErr ==
  \/ \E c \in Conns, pid \in NewPid(MAX_PLAYERS + 1), name \in Names :
       Join(c, pid, name)
  \/ \E c \in Conns : NotJoin(c)
  \/ \E c \in Conns : Leave(c)
  \/ \E c \in Conns, n \in BadDealSizes : Playing(c) /\ Deal(c, n, <<>>)
  \/ \E c \in Conns, n \in BadDealSizes : Playing(c) /\ DealAll(c, n, <<>>)
  \/ \E c \in Conns, text \in ManualTexts : Playing(c) /\ AddManual(c, text)
  \/ \E c \in Conns : Playing(c) /\ ClearHand(c)
  \/ \E c \in Conns, ids \in ErrIdLists \cup {<<>>} :
       Playing(c) /\ RemoveSelected(c, ids)
  \/ \E c \in Conns, ids \in ErrIdLists : Playing(c) /\ EvalSelected(c, ids)
  \/ \E c \in Conns, in \in PlayInputs : Playing(c) /\ PlaySelected(c, in[1], in[2])
  \/ \E c \in Conns : Playing(c) /\ EndRoundVote(c)
  \/ \E c \in Conns : Playing(c) /\ Hints(c)
  \/ \E c \in Conns : Playing(c) /\ UnknownType(c)

SpecErr == Init /\ [][NextErr]_vars

\* SpecPlay: two players and every play_selected, accepted or not, between
\* add_manual, clear_hand and the votes
NextPlay ==
  \/ \E c \in Conns, pid \in NewPid(Cardinality(Pids)), name \in Names : Join(c, pid, name)
  \/ \E c \in Conns : AddManual(c, <<"k", "C">>)
  \/ \E c \in Conns : ClearHand(c)
  \/ \E c \in Conns, in \in PlayInputs : PlaySelected(c, in[1], in[2])
  \/ \E c \in Conns : EndRoundVote(c)

SpecPlay == Init /\ [][NextPlay]_vars

\* SpecJoin: the room fills up while its first player holds cards, plays and
\* votes; once it is full, the pids of Pids join again, under the same or
\* another name, on a free connection, and a further pid tries to join
JoinNames == Names \cup {"n2"}

FirstPid(c) == IsOpen(c) /\ conn[c].pid = PidOrder[1]

NextJoin ==
  \/ \E c \in Conns, pid \in NewPid(MAX_PLAYERS + 1), name \in Names : Join(c, pid, name)
  \/ \E c \in Conns, pid \in PlayerSet \cap Pids, name \in JoinNames :
       Len(players) = MAX_PLAYERS /\ Join(c, pid, name)
  \/ \E c \in Conns : Leave(c)
  \/ \E c \in Conns : FirstPid(c) /\ AddManual(c, <<"k", "C">>)
  \/ \E c \in Conns, t \in TableSet, ids \in IdLists :
       FirstPid(c) /\ PlayVerdict(c, t, ids) = "ok" /\ PlaySelected(c, t, ids)
  \/ \E c \in Conns : FirstPid(c) /\ EndRoundVote(c)

SpecJoin == Init /\ [][NextJoin]_vars

\* SpecHand: two players and every remove_selected, accepted or not, between
\* add_manual, clear_hand, accepted plays and the votes
RemoveInputs == ErrIdLists \cup {<<>>}

NextHand ==
  \/ \E c \in Conns, pid \in NewPid(Cardinality(Pids)), name \in Names : Join(c, pid, name)
  \/ \E c \in Conns : AddManual(c, <<"k", "C">>)
  \/ \E c \in Conns : ClearHand(c)
  \/ \E c \in Conns, ids \in RemoveInputs : RemoveSelected(c, ids)
  \/ \E c \in Conns, t \in TableSet, ids \in IdLists :
       IsOpen(c) /\ PlayVerdict(c, t, ids) = "ok" /\ PlaySelected(c, t, ids)
  \/ \E c \in Conns : EndRoundVote(c)

SpecHand == Init /\ [][NextHand]_vars

\* SpecEval: eval_strict alone, applied once to a list of up to MaxEvalLen
\* cards of EvalDeck (lists in deck order, a card possibly repeated: the
\* evaluator looks at ranks and suits only)
EvalDeck ==
  <<<<"2", "c">>, <<"2", "d">>, <<"3", "c">>, <<"3", "d">>, <<"4", "c">>, <<"4", "d">>,
    <<"5", "c">>, <<"5", "d">>, <<"6", "c">>, <<"6", "d">>, <<"K", "c">>, <<"K", "d">>,
    <<"A", "c">>, <<"A", "d">>>>

\* the lists of n deck positions, none below lo, in non-decreasing order
RECURSIVE SortedLists(_, _)
SortedLists(n, lo) ==
  IF n = 0 THEN {<<>>}
  ELSE UNION {{<<i>> \o r : r \in SortedLists(n - 1, i)} : i \in lo..Len(EvalDeck)}

EvalInputs ==
  {[i \in DOMAIN s |-> EvalDeck[s[i]]] :
     s \in UNION {SortedLists(n, 1) : n \in 0..MaxEvalLen}}

InitEval ==
  /\ RoomInit
  /\ conn = [c \in Conns |-> NoConn]
  /\ last = NoLast
  /\ evCards \in EvalInputs
  /\ evRes = <<>>
  /\ SideInit

Evaluate ==
  /\ evRes = <<>>
  /\ evRes' = <<eval_strict(evCards)>>
  /\ UNCHANGED <<roomVars, conn, last, evCards, sideVars>>

NextEval == Evaluate

SpecEval == InitEval /\ [][NextEval]_vars

\* -------------------------------------------- the room lock, step by step
\*
\* SpecLock follows the handlers of two connections from await to await: a
\* handler enters `async with room.lock`, writes the room, takes the snapshot
\* that persist_room saves, sends the per-viewer snapshots of broadcast one
\* after the other, and leaves the lock; any other handler may be scheduled
\* between two of these steps.

Out == [at |-> "out", rr |-> FALSE, todo |-> {}, dead |-> {}]

\* where a handler stands once its lock section was entered
At(c, at) == [lpc EXCEPT ![c].at = at]

\* what room_to_state, or room_snapshot_for, reads of the round at this moment
Shown(kind, c, rr) ==
  [kind |-> kind, by |-> c, rr |-> rr, round_no |-> round_no,
   hist |-> Len(battle_history), inv |-> involved_pids, ready |-> ready_pids]

\* a faulty variant of LockAcquire: the section is entered without waiting
LockAcquireNoWait(c) == lock' = c

\* asyncio.Lock.acquire: the handler goes on only once the lock is free
LockAcquire(c) == lock = "free" /\ lock' = c

\* asyncio.Lock.release, at the end of the `async with` block
LockRelease(c) == lock' = "free"

\* join, first section: `async with room.lock` is entered
JoinEnter(c) ==
  /\ conn[c].st = "closed"
  /\ lpc[c].at = "out"
  /\ LockAcquire(c)
  /\ lpc' = At(c, "join")
  /\ UNCHANGED <<roomVars, conn, last, evCards, evRes, obs, regVars>>

\* join, first section: the player is added or renamed, the websocket is
\* bound and the room is persisted
JoinBody(c, pid, name) ==
  /\ lpc[c].at = "join"
  /\ JoinVerdict(pid) = "ok"
  /\ IF pid \notin PlayerSet
     THEN /\ players' = Append(players, pid)
          /\ pname' = Put(pname, pid, name)
          /\ hand' = Put(hand, pid, <<>>)
     ELSE /\ pname' = [pname EXCEPT ![pid] = name]
          /\ UNCHANGED <<players, hand>>
  /\ conn' = [conn EXCEPT ![c] = [st |-> "open", pid |-> pid]]
  /\ sockets' = Put(sockets, pid, c)
  /\ obs' = Shown("saved", c, FALSE)
  /\ lpc' = At(c, "join_saved")
  /\ UNCHANGED <<pending, battle_history, round_no, ready_pids, play_seq,
                 next_card_id, last, evCards, evRes, lock, regVars>>

\* join: the first section is left; "joined" is sent outside the lock
JoinLeave(c) ==
  /\ lpc[c].at = "join_saved"
  /\ LockRelease(c)
  /\ lpc' = At(c, "joined")
  /\ UNCHANGED <<roomVars, conn, last, evCards, evRes, obs, regVars>>

\* join, second section: the lock is taken again for the broadcast
JoinBroadcast(c) ==
  /\ lpc[c].at = "joined"
  /\ LockAcquire(c)
  /\ lpc' = At(c, "saved")
  /\ UNCHANGED <<roomVars, conn, last, evCards, evRes, obs, regVars>>

\* the message loop: a message was received and the lock is entered
MsgEnter(c) ==
  /\ IsOpen(c)
  /\ lpc[c].at = "out"
  /\ LockAcquire(c)
  /\ lpc' = At(c, "in")
  /\ UNCHANGED <<roomVars, conn, last, evCards, evRes, obs, regVars>>

\* needs_save: persist_room takes its snapshot of the room the handler wrote
Saved(c, rr) ==
  /\ obs' = Shown("saved", c, rr)'
  /\ lpc' = [lpc EXCEPT ![c].at = "saved", ![c].rr = rr]
  /\ UNCHANGED <<sockets, conn, last, evCards, evRes, lock, regVars>>

\* add_manual inside the lock
MsgAddManual(c, text) ==
  /\ lpc[c].at = "in"
  /\ ManualVerdict(text) = "ok"
  /\ next_card_id <= MaxCards
  /\ hand' = [hand EXCEPT
                ![conn[c].pid] = @ \o NewCards(next_card_id, parse_card_text(text))]
  /\ next_card_id' = next_card_id + 1
  /\ UNCHANGED <<players, pname, pending, battle_history, round_no,
                 ready_pids, play_seq>>
  /\ Saved(c, FALSE)

\* an accepted play_selected inside the lock
MsgPlaySelected(c, table, card_ids) ==
  /\ lpc[c].at = "in"
  /\ PlayVerdict(c, table, card_ids) = "ok"
  /\ ready_pids' = ready_pids \ {conn[c].pid}
  /\ play_seq' = play_seq + 1
  /\ pending' = [pending EXCEPT
                   ![table] = Append(@, NewPlay(conn[c].pid, table, card_ids))]
  /\ UNCHANGED <<players, pname, hand, battle_history, round_no, next_card_id>>
  /\ Saved(c, FALSE)

\* end_round_vote inside the lock: a vote that ends no round is not saved
MsgEndRoundVote(c) ==
  /\ lpc[c].at = "in"
  /\ IF ShouldFinish(ready_pids \cup {conn[c].pid})
     THEN /\ round_no < MaxRounds
          /\ resolve_round(ready_pids \cup {conn[c].pid})
          /\ UNCHANGED <<players, pname, play_seq, next_card_id>>
          /\ Saved(c, TRUE)
     ELSE /\ ready_pids' = ready_pids \cup {conn[c].pid}
          /\ lpc' = At(c, "saved")
          /\ UNCHANGED <<players, pname, hand, pending, battle_history,
                         round_no, play_seq, next_card_id, sockets, conn, last,
                         evCards, evRes, lock, obs, regVars>>

\* end_round_force inside the lock
MsgEndRoundForce(c) ==
  /\ lpc[c].at = "in"
  /\ round_no < MaxRounds
  /\ resolve_round(ready_pids)
  /\ UNCHANGED <<players, pname, play_seq, next_card_id>>
  /\ Saved(c, TRUE)

\* receive_text raises WebSocketDisconnect: the finally block enters the lock
FinallyEnter(c) ==
  /\ conn[c].st = "gone"
  /\ lpc[c].at = "out"
  /\ LockAcquire(c)
  /\ lpc' = At(c, "finally")
  /\ UNCHANGED <<roomVars, conn, last, evCards, evRes, obs, regVars>>

\* the finally block inside the lock: the pid is popped, the room persisted
FinallyBody(c) ==
  /\ lpc[c].at = "finally"
  /\ sockets' = Pop(sockets, conn[c].pid)
  /\ conn' = [conn EXCEPT ![c].st = "closing"]
  /\ obs' = Shown("saved", c, FALSE)
  /\ lpc' = At(c, "saved")
  /\ UNCHANGED <<players, pname, hand, pending, battle_history, round_no,
                 ready_pids, play_seq, next_card_id, last, evCards, evRes, lock, regVars>>

\* after persist_room and the round_result sends: broadcast starts to iterate
\* over Room.sockets
BroadcastStart(c) ==
  /\ lpc[c].at = "saved"
  /\ lpc' = [lpc EXCEPT ![c].at = "broadcast", ![c].todo = DOMAIN sockets]
  /\ UNCHANGED <<roomVars, conn, last, evCards, evRes, lock, obs, regVars>>

\* broadcast, one viewer: room_snapshot_for and the send, which may fail when
\* the viewer's peer is gone
BroadcastOne(c, pid, fails) ==
  /\ lpc[c].at = "broadcast"
  /\ pid \in lpc[c].todo
  /\ fails => pid \in DOMAIN sockets /\ conn[sockets[pid]].st = "gone"
  /\ obs' = Shown("state", c, lpc[c].rr)
  /\ lpc' = [lpc EXCEPT ![c].todo = @ \ {pid},
                        ![c].dead = IF fails THEN @ \cup {pid} ELSE @]
  /\ UNCHANGED <<roomVars, conn, last, evCards, evRes, lock, regVars>>

\* broadcast is over: the dead sockets are popped and the lock section ends;
\* a handler that was in its finally block is finished
BroadcastEnd(c) ==
  /\ lpc[c].at = "broadcast"
  /\ lpc[c].todo = {}
  /\ sockets' = [p \in DOMAIN sockets \ lpc[c].dead |-> sockets[p]]
  /\ conn' = IF conn[c].st = "closing" THEN [conn EXCEPT ![c] = NoConn] ELSE conn
  /\ LockRelease(c)
  /\ lpc' = [lpc EXCEPT ![c] = Out]
  /\ UNCHANGED <<players, pname, hand, pending, battle_history, round_no,
                 ready_pids, play_seq, next_card_id, last, evCards, evRes, obs, regVars>>

\* the peer of a handler that waits for its next message closes
PeerCloseIdle(c) == lpc[c].at = "out" /\ PeerClose(c)

NextLock ==
  \/ \E c \in Conns : JoinEnter(c)
  \/ \E c \in Conns, pid \in NewPid(Cardinality(Pids)) \cup PlayerSet, name \in Names :
       JoinBody(c, pid, name)
  \/ \E c \in Conns : JoinLeave(c)
  \/ \E c \in Conns : JoinBroadcast(c)
  \/ \E c \in Conns : MsgEnter(c)
  \/ \E c \in Conns : MsgAddManual(c, <<"k", "C">>)
  \/ \E c \in Conns, ids \in IdLists : MsgPlaySelected(c, TABLES[1], ids)
  \/ \E c \in Conns : MsgEndRoundVote(c)
  \/ \E c \in Conns : MsgEndRoundForce(c)
  \/ \E c \in Conns : FinallyEnter(c)
  \/ \E c \in Conns : FinallyBody(c)
  \/ \E c \in Conns : BroadcastStart(c)
  \/ \E c \in Conns, pid \in Pids, fails \in BOOLEAN : BroadcastOne(c, pid, fails)
  \/ \E c \in Conns : BroadcastEnd(c)
  \/ \E c \in Conns : PeerCloseIdle(c)

SpecLock == Init /\ [][NextLock]_vars

\* ------------------------------------------------------ the room registry
\*
\* SpecRooms follows get_room from await to await: `async with ROOMS_LOCK` is
\* entered, the registry is looked up, and on a miss the task awaits
\* db_load_room, still inside the lock, before it registers the Room it built.

\* a faulty variant of RoomsLockAcquire: the section is entered without waiting
RoomsLockAcquireNoWait(t) == ROOMS_LOCK' = t

\* `async with ROOMS_LOCK`: the task goes on only once the lock is free
RoomsLockAcquire(t) == ROOMS_LOCK = "free" /\ ROOMS_LOCK' = t

\* get_room(rid) is called and the lock is entered
GetRoomEnter(t, rid) ==
  /\ gpc[t].at = "idle"
  /\ RoomsLockAcquire(t)
  /\ gpc' = [gpc EXCEPT ![t] = [at |-> "locked", rid |-> rid]]
  /\ UNCHANGED <<roomVars, conn, last, evCards, evRes, lock, lpc, obs,
                 ROOMS, got, loads>>

\* `if room_id in ROOMS: return ROOMS[room_id]`
GetRoomHit(t) ==
  /\ gpc[t].at = "locked"
  /\ gpc[t].rid \in DOMAIN ROOMS
  /\ got' = [got EXCEPT ![t] = ROOMS[gpc[t].rid]]
  /\ ROOMS_LOCK' = "free"
  /\ gpc' = [gpc EXCEPT ![t] = Idle]
  /\ UNCHANGED <<roomVars, conn, last, evCards, evRes, lock, lpc, obs,
                 ROOMS, loads>>

\* the id is not registered: `await db_load_room(room_id)` starts
GetRoomMiss(t) ==
  /\ gpc[t].at = "locked"
  /\ gpc[t].rid \notin DOMAIN ROOMS
  /\ loads[gpc[t].rid] < MaxLoads
  /\ loads' = [loads EXCEPT ![gpc[t].rid] = @ + 1]
  /\ gpc' = [gpc EXCEPT ![t].at = "loading"]
  /\ UNCHANGED <<roomVars, conn, last, evCards, evRes, lock, lpc, obs,
                 ROOMS, ROOMS_LOCK, got>>

\* the load is over: the Room is built from the stored state, or fresh when
\* there is none, registered and returned
GetRoomLoaded(t, stored) ==
  /\ gpc[t].at = "loading"
  /\ LET room == [id |-> gpc[t].rid, no |-> loads[gpc[t].rid], restored |-> stored]
     IN  /\ ROOMS' = Put(ROOMS, gpc[t].rid, room)
         /\ got' = [got EXCEPT ![t] = room]
  /\ ROOMS_LOCK' = "free"
  /\ gpc' = [gpc EXCEPT ![t] = Idle]
  /\ UNCHANGED <<roomVars, conn, last, evCards, evRes, lock, lpc, obs, loads>>

NextRooms ==
  \/ \E t \in Tasks, rid \in RoomIds : GetRoomEnter(t, rid)
  \/ \E t \in Tasks : GetRoomHit(t)
  \/ \E t \in Tasks : GetRoomMiss(t)
  \/ \E t \in Tasks, stored \in BOOLEAN : GetRoomLoaded(t, stored)

SpecRooms == Init /\ [][NextRooms]_vars

\* -------------------------------------------------------------- properties

\* a step that resolves a round (only resolve_round changes round_no)
Resolves == round_no' # round_no

AllHandIds == UNION {HandIds(hand[p]) : p \in DOMAIN hand}

AllPendingIds ==
  UNION {UNION {SeqToSet(pending[t][i].card_ids) : i \in DOMAIN pending[t]} :
         t \in TableSet}

LastRound == battle_history[Len(battle_history)]

\* C1: after every round resolution (by a vote that completes readiness or by
\* end_round_force) pending is empty for every table and ready_pids is empty.
C1_ResolutionClears ==
  [][Resolves => (\A t \in TableSet : pending'[t] = <<>>) /\ ready_pids' = {}]_vars

\* C1 witness: a round was resolved with plays on both tables, and nothing is
\* pending and nobody is ready.
C1_Witness ==
  /\ round_no = 1
  /\ Len(battle_history[1].tables) = 2
  /\ \A t \in TableSet : pending[t] = <<>>
  /\ ready_pids = {}

\* the entry of table t in the summary that the resolving step appends
RecordedFor(t) ==
  {battle_history'[Len(battle_history')].tables[k] :
     k \in {j \in DOMAIN battle_history'[Len(battle_history')].tables :
              battle_history'[Len(battle_history')].tables[j].table = t}}

\* C2: for every table with at least one pending Play at resolution, the
\* recorded winner is one of that table's pending Plays and its (cat, tb) is,
\* in lexicographic order, at least that of every Play pending on the table.
C2_WinnerIsMaximal ==
  [][Resolves =>
       \A t \in TableSet : pending[t] # <<>> =>
         /\ Cardinality(RecordedFor(t)) = 1
         /\ \A rec \in RecordedFor(t) :
              /\ rec.winner \in SeqToSet(pending[t])
              /\ \A i \in DOMAIN pending[t] :
                   ~StrengthLess(PlayStrength(rec.winner), PlayStrength(pending[t][i]))]_vars

\* C2 witness: a resolved table held two plays of different strength and the
\* later one won.
C2_Witness ==
  /\ round_no >= 1
  /\ \E k \in DOMAIN LastRound.tables :
       LET rec == LastRound.tables[k]
       IN  /\ Len(rec.plays) >= 2
           /\ StrengthLess(PlayStrength(rec.plays[1]), PlayStrength(rec.winner))
           /\ rec.winner.placed_seq > rec.plays[1].placed_seq

\* C3: when several Plays on a table have the maximal (cat, tb) at resolution,
\* the winner is the one of smallest placed_seq, whoever owns them.
C3_EarliestOfBestWins ==
  [][Resolves =>
       \A t \in TableSet : \A rec \in RecordedFor(t) :
         \A i \in DOMAIN pending[t] :
           (\A j \in DOMAIN pending[t] :
              ~StrengthLess(PlayStrength(pending[t][i]), PlayStrength(pending[t][j])))
           => rec.winner.placed_seq <= pending[t][i].placed_seq]_vars

\* C3 witness: a resolved table held two plays of equal, maximal strength by
\* different players, and the earlier one won.
C3_Witness ==
  /\ round_no >= 1
  /\ \E k \in DOMAIN LastRound.tables :
       LET rec == LastRound.tables[k]
       IN  \E i, j \in DOMAIN rec.plays :
             /\ i < j
             /\ rec.plays[i].pid # rec.plays[j].pid
             /\ PlayStrength(rec.plays[i]) = PlayStrength(rec.plays[j])
             /\ rec.winner = rec.plays[i]

\* C4 (as specified): the card ids a resolution removes from the hands are
\* exactly the card ids referenced by the Plays pending in that round.
C4_RemovedEqualsPlayed ==
  [][Resolves => (AllHandIds \ AllHandIds') = AllPendingIds]_vars

\* C5 (as specified): an end_round_vote in a round with pending Plays resolves
\* the round if and only if, with the voter added to ready_pids, every
\* connected involved player is ready.
C5_VoteResolvesIffConnectedReady ==
  [][\A c \in Conns :
       (EndRoundVote(c) /\ involved_pids # {}) =>
         (Resolves <=>
            (involved_pids \cap DOMAIN sockets) \subseteq (ready_pids \cup {conn[c].pid}))]_vars

\* C6 (as specified): a play_selected on a table of TABLES with 2 to 5 ids, one
\* of them referenced by a pending Play of the caller, is rejected with the
\* cards-already-used error and leaves hand, pending, ready_pids and play_seq
\* unchanged.
C6_ReuseRejectedAsUsed ==
  [][\A c \in Conns, t \in TableSet, ids \in ErrIdLists :
       ( /\ 2 <= Len(ids) /\ Len(ids) <= 5
         /\ IsOpen(c)
         /\ SeqToSet(ids) \cap used_card_ids_in_round(conn[c].pid) # {}
         /\ PlaySelected(c, t, ids) ) =>
         /\ last'.err = "CardsAlreadyUsed"
         /\ UNCHANGED <<hand, pending, ready_pids, play_seq>>]_vars

\* C6: a play_selected naming a card id referenced by a pending Play of the
\* caller is always rejected, to the caller only, leaving hand, pending,
\* ready_pids and play_seq unchanged; the error is cards-already-used when the
\* table is one of TABLES, 2 to 5 ids are given and all of them are in the
\* caller's hand, and otherwise the error of the earlier check that fails
\* (unknown table, combination size, ids not in the hand).
C6_ReuseRejected ==
  [][\A c \in Conns, in \in PlayInputs :
       ( /\ IsOpen(c)
         /\ SeqToSet(in[2]) \cap used_card_ids_in_round(conn[c].pid) # {}
         /\ PlaySelected(c, in[1], in[2]) ) =>
         /\ last'.err \in {"BadTable", "InvalidCombinationSize", "NoSuchCards",
                           "CardsAlreadyUsed"}
         /\ last'.to = {c}
         /\ ( ( /\ in[1] \in TableSet
                /\ 2 <= Len(in[2]) /\ Len(in[2]) <= 5
                /\ SeqToSet(in[2]) \subseteq HandIds(hand[conn[c].pid]) )
              => last'.err = "CardsAlreadyUsed" )
         /\ UNCHANGED <<hand, pending, ready_pids, play_seq>>]_vars

\* C6 witness: a player who has a pending Play and has voted was refused with
\* cards-already-used, and is still ready.
C6_Witness ==
  /\ last.err = "CardsAlreadyUsed"
  /\ last.to = {last.c}
  /\ IsOpen(last.c)
  /\ used_card_ids_in_round(conn[last.c].pid) # {}
  /\ conn[last.c].pid \in ready_pids

\* C7 (as specified): every pending Play references between 2 and 5 pairwise
\* distinct card ids.
C7_PlayIdsDistinct ==
  \A t \in TableSet : \A i \in DOMAIN pending[t] :
    LET ids == pending[t][i].card_ids
    IN  /\ 2 <= Len(ids) /\ Len(ids) <= 5
        /\ \A a, b \in DOMAIN ids : a # b => ids[a] # ids[b]

\* C8 (as specified): eval_strict returns a result exactly when it is given 2 to
\* 5 cards.
C8_EvalTotal ==
  evRes # <<>> => (evRes[1].ok <=> (2 <= Len(evCards) /\ Len(evCards) <= 5))

RejectErrors ==
  {"RoomFull", "InvalidDealSize", "InvalidCardText", "BadTable",
   "InvalidCombinationSize", "NoSuchCards", "UnknownType"}

\* C9: a step that rejects a message (a join into a full room, a deal size out
\* of range, an unparsable card text, an unknown table, a bad combination
\* size, ids not in the hand, an unknown type) sends the error to the caller
\* only and leaves players, the hands, pending, ready_pids, round_no, play_seq,
\* next_card_id and battle_history unchanged.
C9_RejectionsChangeNothing ==
  [][last'.err \in RejectErrors =>
       /\ last'.to = {last'.c}
       /\ UNCHANGED <<players, hand, pending, ready_pids, round_no, play_seq,
                      next_card_id, battle_history>>]_vars

\* C9 witness: a new pid was refused by a full room in the middle of a round,
\* with a Play pending and a player ready.
C9_Witness ==
  /\ last.err = "RoomFull"
  /\ last.to = {last.c}
  /\ Len(players) = MAX_PLAYERS
  /\ involved_pids # {}
  /\ ready_pids # {}

\* C10 (as specified): ready_pids holds only pids bound in Room.sockets.
C10_ReadyAreConnected == ready_pids \subseteq DOMAIN sockets

\* the number of cards held in all hands
RECURSIVE HandCardCount(_)
HandCardCount(k) ==
  IF k = 0 THEN 0 ELSE Len(hand[players[k]]) + HandCardCount(k - 1)

\* no two held cards share an id, and every id of a hand or of a pending Play
\* is below next_card_id
CardIdsFresh ==
  /\ Cardinality(AllHandIds) = HandCardCount(Len(players))
  /\ \A i \in AllHandIds \cup AllPendingIds : i < next_card_id

\* C11: card ids are unique for the lifetime of the room: no two held cards
\* share an id, every id of a hand or of a pending Play is below next_card_id,
\* next_card_id never decreases, and a card that enters a hand gets an id that
\* was never assigned before (at least the old next_card_id).
C11_CardIdsUnique ==
  []CardIdsFresh
  /\ [][ /\ next_card_id' >= next_card_id
         /\ \A i \in AllHandIds' \ AllHandIds : i >= next_card_id ]_vars

\* C11 witness: a card of the last resolved round is gone from the hands, and
\* the only card held is one assigned later, with the greatest id.
C11_Witness ==
  /\ round_no >= 1
  /\ next_card_id = MaxCards + 1
  /\ AllHandIds = {MaxCards}
  /\ AllPendingIds = {}
  /\ \E k \in DOMAIN LastRound.tables :
       \E i \in DOMAIN LastRound.tables[k].plays :
         LastRound.tables[k].plays[i].card_ids[1] < MaxCards

\* the pending Plays, each with its table and its position on the table
PendingSlots == UNION {{<<t, i>> : i \in DOMAIN pending[t]} : t \in TableSet}

\* C12: no card id is referenced by two different pending Plays, whatever
\* their tables and players.
C12_NoIdInTwoPlays ==
  \A x, y \in PendingSlots :
    x # y => SeqToSet(pending[x[1]][x[2]].card_ids)
               \cap SeqToSet(pending[y[1]][y[2]].card_ids) = {}

\* C12 witness: one player has a Play pending on each of two tables (the
\* second was accepted past the used-ids check).
C12_Witness ==
  \E x, y \in PendingSlots :
    /\ x[1] # y[1]
    /\ pending[x[1]][x[2]].pid = pending[y[1]][y[2]].pid

\* C13 (as specified): a card id referenced by a pending Play is in no hand.
C13_PlayedNotHeld == AllPendingIds \cap AllHandIds = {}

\* C13: a card id referenced by a pending Play is never in the hand of a
\* player other than the owner of the Play; an accepted play_selected leaves
\* every hand as it is, the played ids still in the owner's hand; a
\* resolution leaves no id of the resolved Plays in any hand.
C13_PlayedStayUntilResolved ==
  /\ [](\A x \in PendingSlots : \A q \in PlayerSet :
          q # pending[x[1]][x[2]].pid =>
            SeqToSet(pending[x[1]][x[2]].card_ids) \cap HandIds(hand[q]) = {})
  /\ [][ /\ play_seq' # play_seq =>
              /\ hand' = hand
              /\ \A x \in PendingSlots' \ PendingSlots :
                   SeqToSet(pending'[x[1]][x[2]].card_ids)
                     \subseteq HandIds(hand'[pending'[x[1]][x[2]].pid])
         /\ Resolves => AllPendingIds \cap AllHandIds' = {} ]_vars

\* C13 witness: a Play is pending whose card is still in its owner's hand,
\* while another player holds a card too.
C13_Witness ==
  \E x \in PendingSlots : \E q \in PlayerSet :
    /\ q # pending[x[1]][x[2]].pid
    /\ hand[q] # <<>>
    /\ SeqToSet(pending[x[1]][x[2]].card_ids)
         \subseteq HandIds(hand[pending[x[1]][x[2]].pid])

\* the Plays of the recorded rounds from round k on, in order
RECURSIVE HistoryPlays(_, _)
HistoryPlays(k, j) ==
  IF k > Len(battle_history) THEN <<>>
  ELSE IF j > Len(battle_history[k].tables) THEN HistoryPlays(k + 1, 1)
  ELSE battle_history[k].tables[j].plays \o HistoryPlays(k, j + 1)

\* the pending Plays of the tables from the k-th of TABLES on
RECURSIVE PendingPlays(_)
PendingPlays(k) ==
  IF k > Len(TABLES) THEN <<>> ELSE pending[TABLES[k]] \o PendingPlays(k + 1)

\* every Play submitted so far: the resolved ones, then the pending ones
AllPlays == HistoryPlays(1, 1) \o PendingPlays(1)

\* C14: play_seq changes only in a step that appends one Play to one table,
\* and then by exactly 1, the new Play being stamped with the new value (a
\* resolution leaves it alone); all Plays ever submitted have pairwise
\* distinct placed_seq, and every pending list is in increasing placed_seq.
C14_PlaySeqStamps ==
  /\ [](\A i, j \in DOMAIN AllPlays :
          i # j => AllPlays[i].placed_seq # AllPlays[j].placed_seq)
  /\ [](\A t \in TableSet : \A i, j \in DOMAIN pending[t] :
          i < j => pending[t][i].placed_seq < pending[t][j].placed_seq)
  /\ [][ /\ Resolves => play_seq' = play_seq
         /\ (play_seq' # play_seq \/ PendingSlots' \ PendingSlots # {}) =>
              /\ play_seq' = play_seq + 1
              /\ \E t \in TableSet :
                   /\ Len(pending'[t]) = Len(pending[t]) + 1
                   /\ SubSeq(pending'[t], 1, Len(pending[t])) = pending[t]
                   /\ pending'[t][Len(pending'[t])].placed_seq = play_seq'
                   /\ \A u \in TableSet \ {t} : pending'[u] = pending[u] ]_vars

\* C14 witness: a Play was resolved and a later Play is pending, stamped with
\* the current play_seq, greater than the stamp of the resolved one.
C14_Witness ==
  /\ HistoryPlays(1, 1) # <<>>
  /\ \E x \in PendingSlots :
       /\ pending[x[1]][x[2]].placed_seq = play_seq
       /\ HistoryPlays(1, 1)[1].placed_seq < play_seq

\* C15: end_round_force can be handled on every open connection, whatever
\* ready_pids is, and it resolves the round: round_no grows by exactly 1, one
\* summary is appended to battle_history (one with no table when no Play is
\* pending), and pending and ready_pids are emptied.
C15_ForceAlwaysResolves ==
  /\ [](\A c \in Conns : (IsOpen(c) /\ round_no < MaxRounds) => ENABLED EndRoundForce(c))
  /\ [][\A c \in Conns : EndRoundForce(c) =>
           /\ round_no' = round_no + 1
           /\ Len(battle_history') = Len(battle_history) + 1
           /\ SubSeq(battle_history', 1, Len(battle_history)) = battle_history
           /\ battle_history'[Len(battle_history')].round = round_no'
           /\ (involved_pids = {} => battle_history'[Len(battle_history')].tables = <<>>)
           /\ \A t \in TableSet : pending'[t] = <<>>
           /\ ready_pids' = {}]_vars

\* C15 witness: a round was resolved with no Play pending (only
\* end_round_force does that), and an empty summary is recorded.
C15_Witness ==
  /\ round_no = 1
  /\ Len(battle_history) = 1
  /\ battle_history[1].tables = <<>>
  /\ ready_pids = {}
  /\ \E p \in PlayerSet : hand[p] # <<>>

\* C16: a join of a pid already in players succeeds, in a full room too, and
\* changes only that player's name (players, hands, pending Plays, readiness
\* and history stay); a join of a new pid succeeds, adding the pid, iff fewer
\* than MAX_PLAYERS players exist, and otherwise is refused with players
\* unchanged; so there are never more than MAX_PLAYERS players and no player
\* is ever removed.
C16_JoinKnownOrRoom ==
  /\ [](Len(players) <= MAX_PLAYERS)
  /\ [][ /\ Len(players') >= Len(players)
         /\ SubSeq(players', 1, Len(players)) = players
         /\ \A c \in Conns, pid \in SeqToSet(PidOrder), name \in JoinNames :
              Join(c, pid, name) =>
                IF pid \in PlayerSet
                THEN /\ conn'[c] = [st |-> "open", pid |-> pid]
                     /\ players' = players
                     /\ pname' = [pname EXCEPT ![pid] = name]
                     /\ UNCHANGED <<hand, pending, ready_pids, battle_history,
                                    round_no, play_seq, next_card_id>>
                ELSE IF Len(players) < MAX_PLAYERS
                THEN /\ conn'[c] = [st |-> "open", pid |-> pid]
                     /\ players' = Append(players, pid)
                     /\ hand'[pid] = <<>>
                ELSE /\ conn'[c] = conn[c]
                     /\ last'.err = "RoomFull"
                     /\ players' = players ]_vars

\* C16 witness: in a full room a player who holds a card and has a Play
\* pending has joined again, under the other name.
C16_Witness ==
  /\ Len(players) = MAX_PLAYERS
  /\ \E c \in Conns :
       /\ IsOpen(c)
       /\ pname[conn[c].pid] = "n2"
       /\ hand[conn[c].pid] # <<>>
       /\ conn[c].pid \in involved_pids

\* what an accepted remove_selected of `ids` on connection c does
RemovesHeld(c, ids) ==
  /\ last'.err = "none"
  /\ hand'[conn[c].pid] = SelectSeq(hand[conn[c].pid], LAMBDA x : x.id \notin SeqToSet(ids))
  /\ \A q \in PlayerSet \ {conn[c].pid} : hand'[q] = hand[q]
  /\ UNCHANGED <<pending, ready_pids>>

\* a remove_selected refused with error `err`
RemoveFails(c, err) ==
  /\ last'.err = err
  /\ last'.to = {c}
  /\ UNCHANGED <<hand, pending, ready_pids>>

\* C17 (as specified): remove_selected fails, the hand unchanged, when a
\* requested id is referenced by a pending Play of the caller; fails with the
\* no-such-cards error when none of the requested ids is in the hand;
\* otherwise removes exactly the requested ids that are held.
C17_RemoveThreeCases ==
  [][\A c \in Conns, ids \in RemoveInputs :
       (IsOpen(c) /\ RemoveSelected(c, ids)) =>
         IF SeqToSet(ids) \cap used_card_ids_in_round(conn[c].pid) # {}
         THEN last'.err # "none" /\ UNCHANGED <<hand, pending, ready_pids>>
         ELSE IF SeqToSet(ids) \cap HandIds(hand[conn[c].pid]) = {}
         THEN RemoveFails(c, "NoSuchCards")
         ELSE RemovesHeld(c, ids)]_vars

\* C17: remove_selected with an empty id list is ignored, with no error and
\* no change; with a non-empty list it fails with the cards-in-use error, the
\* hand unchanged, when a requested id is referenced by a pending Play of the
\* caller; fails with the no-such-cards error when none of the requested ids
\* is in the hand; otherwise removes exactly the requested ids that are held
\* and leaves pending, ready_pids and the other hands unchanged.
C17_RemoveFourCases ==
  [][\A c \in Conns, ids \in RemoveInputs :
       (IsOpen(c) /\ RemoveSelected(c, ids)) =>
         IF ids = <<>>
         THEN last'.err = "none" /\ UNCHANGED <<hand, pending, ready_pids>>
         ELSE IF SeqToSet(ids) \cap used_card_ids_in_round(conn[c].pid) # {}
         THEN RemoveFails(c, "CardsInUse")
         ELSE IF SeqToSet(ids) \cap HandIds(hand[conn[c].pid]) = {}
         THEN RemoveFails(c, "NoSuchCards")
         ELSE RemovesHeld(c, ids)]_vars

\* C17 witness: a player whose other card is gone was refused the removal of
\* the card its pending Play references, and still holds it.
C17_Witness ==
  /\ last.err = "CardsInUse"
  /\ IsOpen(last.c)
  /\ next_card_id = MaxCards + 1
  /\ Len(hand[conn[last.c].pid]) = 1
  /\ HandIds(hand[conn[last.c].pid]) = used_card_ids_in_round(conn[last.c].pid)

\* C18: clear_hand can be handled on every open connection; it empties the
\* caller's hand, also when pending Plays of the caller reference its cards,
\* and leaves pending, ready_pids, round_no, play_seq, next_card_id and the
\* other hands unchanged; at resolution every pending Play is recorded and
\* competes, whether or not its cards are still held.
C18_ClearHandUnconditional ==
  /\ [](\A c \in Conns : IsOpen(c) => ENABLED ClearHand(c))
  /\ [][ /\ \A c \in Conns : ClearHand(c) =>
              /\ hand'[conn[c].pid] = <<>>
              /\ \A q \in PlayerSet \ {conn[c].pid} : hand'[q] = hand[q]
              /\ UNCHANGED <<pending, ready_pids, round_no, play_seq, next_card_id>>
         /\ Resolves =>
              \A t \in TableSet : pending[t] # <<>> =>
                \A rec \in RecordedFor(t) :
                  /\ rec.plays = pending[t]
                  /\ rec.winner = winner(pending[t]) ]_vars

\* C18 witness: a player with an empty hand has a Play pending (its cards
\* were cleared after the play), while somebody is ready.
C18_Witness ==
  /\ ready_pids # {}
  /\ \E x \in PendingSlots : hand[pending[x[1]][x[2]].pid] = <<>>

\* C19: an accepted play_selected appends exactly one Play, of the caller and
\* of the given ids, to the end of the chosen table's pending list, takes the
\* caller out of ready_pids and nobody else, and leaves the other tables, all
\* hands, round_no and battle_history unchanged (it resolves nothing).
C19_AcceptedPlayFrame ==
  [][\A c \in Conns, t \in TableSet, ids \in IdLists :
       (IsOpen(c) /\ PlayVerdict(c, t, ids) = "ok" /\ PlaySelected(c, t, ids)) =>
         /\ Len(pending'[t]) = Len(pending[t]) + 1
         /\ SubSeq(pending'[t], 1, Len(pending[t])) = pending[t]
         /\ pending'[t][Len(pending'[t])].pid = conn[c].pid
         /\ pending'[t][Len(pending'[t])].card_ids = ids
         /\ pending'[t][Len(pending'[t])].table = t
         /\ \A u \in TableSet \ {t} : pending'[u] = pending[u]
         /\ ready_pids' = ready_pids \ {conn[c].pid}
         /\ UNCHANGED <<hand, round_no, battle_history>>]_vars

\* C19 witness: the latest Play is pending, its owner is not ready, and the
\* other player, who has a Play pending too, is still ready.
C19_Witness ==
  \E x, y \in PendingSlots :
    /\ pending[x[1]][x[2]].placed_seq = play_seq
    /\ pending[x[1]][x[2]].pid \notin ready_pids
    /\ pending[y[1]][y[2]].pid \in ready_pids

\* C20: the end of a connection (a leave or a closed peer) closes it and
\* unbinds its pid from Room.sockets, and leaves players, names, hands,
\* pending, ready_pids, round_no, play_seq, next_card_id and battle_history
\* unchanged; a later join of a pid of players binds the connection to it
\* and leaves the hands and pending unchanged, so the player finds them as
\* they are.
C20_DisconnectKeepsState ==
  [][ /\ \A c \in Conns : (Leave(c) \/ Disconnect(c)) =>
          /\ conn'[c] = NoConn
          /\ conn[c].pid \notin DOMAIN sockets'
          /\ UNCHANGED <<players, pname, hand, pending, ready_pids, round_no,
                         play_seq, next_card_id, battle_history>>
     /\ \A c \in Conns, pid \in PlayerSet, name \in Names : Join(c, pid, name) =>
          /\ conn'[c] = [st |-> "open", pid |-> pid]
          /\ UNCHANGED <<players, hand, pending, round_no, play_seq, next_card_id>> ]_vars

\* C20 witness: a player who holds a card and has a Play pending is bound to
\* no connection, and the other player is connected.
C20_Witness ==
  \E p \in involved_pids :
    /\ hand[p] # <<>>
    /\ p \notin DOMAIN sockets
    /\ \A c \in Conns : conn[c].pid # p
    /\ \E c \in Conns : IsOpen(c)


\* a handler is inside a section guarded by `async with room.lock`
Inside(c) == lpc[c].at \notin {"out", "joined"}

\* the handler whose step this is holds the room lock
ActsUnderLock == \E c \in Conns : lpc'[c] # lpc[c] /\ Inside(c) /\ lock = c

\* C21: every handler reads and writes the room only while it holds the
\* room's lock, so at most one handler is inside a locked section at a time,
\* and no persisted snapshot and no broadcast shows a round half resolved: the
\* round number it shows is the number of recorded rounds, and what the
\* handler that resolved the round shows has no pending Play and no ready pid
C21_LockSerialises ==
  /\ [](\A c \in Conns : Inside(c) => lock = c)
  /\ [](obs.kind # "none" =>
          /\ obs.round_no = obs.hist
          /\ obs.rr => obs.inv = {} /\ obs.ready = {})
  /\ [][roomVars' # roomVars \/ obs' # obs => ActsUnderLock]_vars

\* a handler broadcasts the round it resolved while another connection is open
C21_Witness ==
  /\ obs.kind = "state" /\ obs.rr /\ obs.round_no = 1
  /\ \E c, d \in Conns :
       c # d /\ lock = c /\ lpc[c].at = "broadcast" /\ IsOpen(d) /\ lpc[d].at = "out"

\* the ranks of a list of cards, and its suits
RanksOf(cards) == {cards[i][1] : i \in DOMAIN cards}

SuitsOf(cards) == {cards[i][2] : i \in DOMAIN cards}

\* five cards of ranks A, 2, 3, 4, 5 that are not all of one suit
IsWheel(cards) ==
  /\ Len(cards) = 5
  /\ RanksOf(cards) = {"A", "2", "3", "4", "5"}
  /\ Cardinality(SuitsOf(cards)) > 1

\* the other lists of five cards that eval_strict ranks as a 5-card STRAIGHT
OtherStraights ==
  {x \in EvalInputs :
     /\ Len(x) = 5
     /\ ~IsWheel(x)
     /\ eval_strict(x).ok
     /\ eval_strict(x).cat = CAT_5.STRAIGHT}

\* C22: eval_strict of five cards of ranks A, 2, 3, 4, 5, not all of one
\* suit, is the 5-card STRAIGHT with tiebreak (5), not (14), and so it is
\* weaker than every other 5-card straight.
C22_WheelIsLowest ==
  (evRes # <<>> /\ IsWheel(evCards)) =>
     /\ evRes[1].ok
     /\ evRes[1].cat = CAT_5.STRAIGHT
     /\ evRes[1].tb = <<5>>
     /\ \A x \in OtherStraights :
          StrengthLess(PlayStrength(evRes[1]), PlayStrength(eval_strict(x)))

\* a wheel was evaluated, and another 5-card straight exists to compare with
C22_Witness ==
  /\ evRes # <<>>
  /\ IsWheel(evCards)
  /\ OtherStraights # {}
  /\ Cardinality(SuitsOf(evCards)) = 2

\* ------------------------------------------------- the snapshot of a room

\* d.get(k, default) on a JSON object
Get(d, k, default) == IF k \in DOMAIN d THEN d[k] ELSE default

\* list(a_set): the elements in any order
Orders(S) ==
  {o \in [1..Cardinality(S) -> S] : \A i, j \in DOMAIN o : i # j => o[i] # o[j]}

\* the string made of a list of characters (a rank, a suit: one character)
Text(chars) ==
  IF chars = <<>> THEN "" ELSE IF Len(chars) = 1 THEN chars[1] ELSE "?"

\* CardInst.as_text: f"{rank}{suit}", as its list of characters
as_text(c) == <<c.rank, c.suit>>

CardInst_to_json(c) == [id |-> c.id, c |-> as_text(c)]

\* CardInst.from_json: rank = c[:-1], suit = c[-1:]
CardInst_from_json(d) ==
  LET c == Get(d, "c", <<>>)
  IN  [id |-> d.id,
       rank |-> Text(SubSeq(c, 1, Len(c) - 1)),
       suit |-> Text(SubSeq(c, Len(c), Len(c)))]

\* Play.to_public, of the fields the model keeps
Play_to_public(pl) ==
  [pid |-> pl.pid, name |-> pl.name, table |-> pl.table, cat |-> pl.cat,
   tb |-> pl.tb, label |-> pl.label, placed_seq |-> pl.placed_seq,
   card_ids |-> pl.card_ids]

\* a faulty variant of Play_from_json: the ids are read from another key
Play_from_json_no_ids(d) ==
  [pid |-> d.pid, name |-> d.name, table |-> d.table,
   card_ids |-> Get(d, "ids", <<>>), cat |-> d.cat, tb |-> Get(d, "tb", <<>>),
   label |-> d.label, placed_seq |-> Get(d, "placed_seq", 0)]

Play_from_json(d) ==
  [pid |-> d.pid, name |-> d.name, table |-> d.table,
   card_ids |-> Get(d, "card_ids", <<>>), cat |-> d.cat, tb |-> Get(d, "tb", <<>>),
   label |-> d.label, placed_seq |-> Get(d, "placed_seq", 0)]

\* the Room as its fields that a snapshot is meant to keep (Player.archive is
\* never written: it is the empty list)
RoomValue ==
  [round_no |-> round_no, play_seq |-> play_seq, next_card_id |-> next_card_id,
   ready_pids |-> ready_pids,
   players |-> [i \in DOMAIN players |->
                  [pid |-> players[i], name |-> pname[players[i]],
                   hand |-> hand[players[i]], archive |-> <<>>]],
   pending |-> pending,
   battle_history |-> battle_history]

\* room_to_state, with list(room.ready_pids) coming out in the order `order`
room_to_state(order) ==
  [round_no |-> round_no, play_seq |-> play_seq, next_card_id |-> next_card_id,
   ready_pids |-> order,
   players |-> [i \in DOMAIN players |->
                  [pid |-> players[i], name |-> pname[players[i]],
                   hand |-> [j \in DOMAIN hand[players[i]] |->
                               CardInst_to_json(hand[players[i]][j])],
                   archive |-> <<>>]],
   pending |-> [t \in TableSet |->
                  [i \in DOMAIN pending[t] |-> Play_to_public(pending[t][i])]],
   battle_history |-> battle_history]

room_from_state(st) ==
  [round_no |-> Get(st, "round_no", 0), play_seq |-> Get(st, "play_seq", 0),
   next_card_id |-> Get(st, "next_card_id", 1),
   ready_pids |-> SeqToSet(Get(st, "ready_pids", <<>>)),
   players |-> LET ps == Get(st, "players", <<>>)
               IN  [i \in DOMAIN ps |->
                      [pid |-> ps[i].pid, name |-> Get(ps[i], "name", "-"),
                       hand |-> LET h == Get(ps[i], "hand", <<>>)
                                IN  [j \in DOMAIN h |-> CardInst_from_json(h[j])],
                       archive |-> Get(ps[i], "archive", <<>>)]],
   pending |-> LET pend == Get(st, "pending", EmptyDict)
               IN  [t \in TableSet |->
                      LET pls == Get(pend, t, <<>>)
                      IN  [i \in DOMAIN pls |-> Play_from_json(pls[i])]],
   battle_history |-> Get(st, "battle_history", <<>>)]

\* C23: a Room rebuilt by room_from_state from its room_to_state snapshot has
\* the same round_no, play_seq, next_card_id and ready_pids, the same players
\* in the same order with the same names, hands (id, rank and suit of every
\* card, in order) and archives, the same pending Plays per table in the same
\* order, and the same battle_history.
C23_SnapshotRoundTrip ==
  \A order \in Orders(ready_pids) : room_from_state(room_to_state(order)) = RoomValue

\* a room with two players, cards in a hand, a pending Play and a ready pid
C23_Witness ==
  /\ Len(players) = 2
  /\ \E p \in PlayerSet : Len(hand[p]) = 2
  /\ involved_pids # {}
  /\ ready_pids # {}
  /\ play_seq > 0

\* C24: from a fresh room on, whenever no handler holds the room lock, it is
\* not the case that some player has a pending Play and every player with a
\* pending Play is in ready_pids.
C24_NeverAllInvolvedReady ==
  lock = "free" => ~(involved_pids # {} /\ involved_pids \subseteq ready_pids)

\* between two handlers, one of two players with pending Plays has voted
C24_Witness ==
  /\ lock = "free"
  /\ \A c \in Conns : lpc[c].at = "out"
  /\ Cardinality(involved_pids) = 2
  /\ ready_pids # {}
  /\ ready_pids \subseteq involved_pids

\* the handler of connection c ends in this step
Closes(c) == conn[c].st # "closed" /\ conn'[c].st = "closed"

\* C25 (as specified): when a connection closes, a pid bound in sockets to
\* another, still open connection stays bound to it; so a pid that joined
\* again on a second connection keeps its binding, and its broadcasts, after
\* its first connection closes.
C25_CloseKeepsOtherBinding ==
  [][\A c \in Conns : Closes(c) =>
       \A p \in DOMAIN sockets :
         (sockets[p] # c /\ IsOpen(sockets[p])) =>
            (p \in DOMAIN sockets' /\ sockets'[p] = sockets[p])]_vars

\* C26: from a fresh room on, round_no is the number of entries of
\* battle_history and the k-th entry is the summary of round k; a resolution
\* (a vote that completes readiness, or end_round_force) appends the summary
\* of the pending Plays and adds exactly 1 to round_no, and nothing else
\* changes round_no or battle_history.
C26_RoundCountsHistory ==
  /\ [](/\ round_no = Len(battle_history)
        /\ \A k \in DOMAIN battle_history : battle_history[k].round = k)
  /\ [][(round_no' # round_no \/ battle_history' # battle_history) =>
         /\ \E c \in Conns : EndRoundVote(c) \/ EndRoundForce(c)
         /\ round_no' = round_no + 1
         /\ battle_history' =
              Append(battle_history,
                     [round |-> round_no + 1, tables |-> tables_out(1)])]_vars

\* a round with a Play was resolved and recorded, and a vote that resolves
\* nothing followed
C26_Witness ==
  /\ round_no = 1
  /\ Len(battle_history) = 1
  /\ battle_history[1].tables # <<>>
  /\ play_seq > 0
  /\ ready_pids # {}

\* C27: get_room calls for one room id, also those made while a load of that
\* id is in flight, all return the same Room object; an id is loaded at most
\* once, and a Room in the registry is never replaced or removed.
C27_OneRoomPerId ==
  /\ [](\A t, u \in Tasks : (got[t].id = got[u].id) => got[t] = got[u])
  /\ [](\A r \in RoomIds : loads[r] <= 1)
  /\ [](\A t \in Tasks : got[t] # NoRoom => ROOMS[got[t].id] = got[t])
  /\ [][\A r \in DOMAIN ROOMS : r \in DOMAIN ROOMS' /\ ROOMS'[r] = ROOMS[r]]_vars

\* a task got the Room that another task loaded, and a third waits for the
\* lock while the other room id is loading
C27_Witness ==
  \E t, u, w \in Tasks :
    /\ t # u /\ got[t] # NoRoom /\ got[t] = got[u]
    /\ gpc[w].at = "loading" /\ gpc[w].rid # got[t].id

====
